---- MODULE Spec2Model ----
(***************************************************************************)
(* Sales analytics system: the record validator/filter, the seven          *)
(* aggregations, the enrichment join and the orchestration in main().      *)
(*                                                                         *)
(* Representation.  Python strings whose characters the code inspects      *)
(* (identifiers, dates, typed answers) are sequences of one-character      *)
(* strings; strings that are only compared for equality or tested for      *)
(* emptiness (Region, ProductName) are TLA+ strings.  Optional arguments   *)
(* are <<>> (None) or <<v>>.  A dict is the sequence of its items in       *)
(* insertion order.  Prices are whole numbers, for which the float         *)
(* arithmetic of the code is exact; a two-decimal rounding is an integer   *)
(* count of hundredths.                                                    *)
(***************************************************************************)
EXTENDS Integers, Sequences, FiniteSets, TLC

VARIABLES
    pc,                     \* position in main() / in the library session
    stdin,                  \* the answers typed at main's prompts
    api,                    \* what the remote catalog answers to the one GET
    parsed,                 \* the list parse_transactions returned
    transactions,           \* main's variable `transactions`
    args,                   \* arguments of the latest call
    ret,                    \* return value of the latest call
    invalid_count,          \* main's variable `invalid_count`
    summary,                \* main's variable `summary`
    api_products,           \* main's variable `api_products`
    enriched_transactions,  \* main's variable `enriched_transactions`
    enriched_file,          \* rows of data/enriched_sales_data.txt
    report_file,            \* sections of output/sales_report.txt
    error                   \* exception caught at main's outer boundary

vars == <<pc, stdin, api, parsed, transactions, args, ret, invalid_count,
          summary, api_products, enriched_transactions, enriched_file,
          report_file, error>>

-----------------------------------------------------------------------------
(* Bounds of the model *)

MaxLen == 3

-----------------------------------------------------------------------------
(* Python values *)

None == <<>>

Some(v) == <<v>>

\* truth value of an optional number: None and 0 are falsy
TruthyNum(o) == o # None /\ o[1] # 0

\* truth value of an optional string: None and "" are falsy
TruthyStr(o) == o # None /\ o[1] # ""

\* str.startswith(c) for a one-character prefix
StartsWith(s, c) == Len(s) > 0 /\ s[1] = c

Digits == {"0", "1", "2", "3", "4", "5", "6", "7", "8", "9"}

DigitVal(c) ==
    CASE c = "0" -> 0 [] c = "1" -> 1 [] c = "2" -> 2 [] c = "3" -> 3
      [] c = "4" -> 4 [] c = "5" -> 5 [] c = "6" -> 6 [] c = "7" -> 7
      [] c = "8" -> 8 [] c = "9" -> 9

\* code point of the characters that occur in dates
Ord(c) == IF c = "-" THEN 45 ELSE 48 + DigitVal(c)

\* s < t for Python strings
RECURSIVE StrLess(_, _)
StrLess(s, t) ==
    IF t = <<>> THEN FALSE
    ELSE IF s = <<>> THEN TRUE
    ELSE IF s[1] = t[1] THEN StrLess(Tail(s), Tail(t))
    ELSE Ord(s[1]) < Ord(t[1])

\* whether int(s) / float(s) accepts s, over the alphabet of the model
\* (digits and letters): a non-empty run of digits
ParsesAsNumber(s) == Len(s) > 0 /\ \A i \in 1..Len(s) : s[i] \in Digits

RECURSIVE NumberValue(_)
NumberValue(s) ==
    IF s = <<>> THEN 0
    ELSE 10 * NumberValue(SubSeq(s, 1, Len(s) - 1)) + DigitVal(s[Len(s)])

\* Quantity * UnitPrice
Amount(t) == t.Quantity * t.UnitPrice

SeqsUpTo(S, n) == UNION {[1..k -> S] : k \in 0..n}

RECURSIVE SumSeq(_)
SumSeq(s) == IF s = <<>> THEN 0 ELSE s[1] + SumSeq(Tail(s))

Abs(x) == IF x < 0 THEN -x ELSE x

Min(a, b) == IF a < b THEN a ELSE b

\* the items of s with item i projected by f, for dict-like sequences
Keys(d) == [i \in 1..Len(d) |-> d[i].key]

HasKey(d, k) == \E i \in 1..Len(d) : d[i].key = k

IndexOf(d, k) == CHOOSE i \in 1..Len(d) : d[i].key = k

Range(s) == {s[i] : i \in 1..Len(s)}

-----------------------------------------------------------------------------
(* utils/file_handler.py : validate_and_filter *)

\* IsInvalid with the quantity test off by one (a quantity of 0 passes)
IsInvalid_ZeroQuantityPasses(t) ==
    \/ t.Quantity < 0
    \/ t.UnitPrice <= 0
    \/ ~StartsWith(t.TransactionID, "T")
    \/ ~StartsWith(t.ProductID, "P")
    \/ ~StartsWith(t.CustomerID, "C")

\* the validation checks of the loop body
IsInvalid(t) ==
    \/ t.Quantity <= 0
    \/ t.UnitPrice <= 0
    \/ ~StartsWith(t.TransactionID, "T")
    \/ ~StartsWith(t.ProductID, "P")
    \/ ~StartsWith(t.CustomerID, "C")

\* `if region and t["Region"] != region`
FailsRegion(t, region) == TruthyStr(region) /\ t.Region # region[1]

\* `if min_amount and amount < min_amount`
FailsMin(t, min_amount) == TruthyNum(min_amount) /\ Amount(t) < min_amount[1]

\* FailsMax testing presence instead of truth: `max_amount is not None`
FailsMax_PresenceTest(t, max_amount) ==
    max_amount # None /\ Amount(t) > max_amount[1]

\* `if max_amount and amount > max_amount`
FailsMax(t, max_amount) == TruthyNum(max_amount) /\ Amount(t) > max_amount[1]

\* VFStep with the amount filters tested before the region filter
VFStep_AmountFirst(acc, t, region, min_amount, max_amount) ==
    IF IsInvalid(t)
        THEN [acc EXCEPT !.invalid_count = @ + 1]
    ELSE IF FailsMin(t, min_amount) \/ FailsMax(t, max_amount)
        THEN [acc EXCEPT !.filtered_by_amount = @ + 1]
    ELSE IF FailsRegion(t, region)
        THEN [acc EXCEPT !.filtered_by_region = @ + 1]
    ELSE [acc EXCEPT !.valid_transactions = Append(@, t)]

\* one iteration of `for t in transactions`
VFStep(acc, t, region, min_amount, max_amount) ==
    IF IsInvalid(t)
        THEN [acc EXCEPT !.invalid_count = @ + 1]
    ELSE IF FailsRegion(t, region)
        THEN [acc EXCEPT !.filtered_by_region = @ + 1]
    ELSE IF FailsMin(t, min_amount)
        THEN [acc EXCEPT !.filtered_by_amount = @ + 1]
    ELSE IF FailsMax(t, max_amount)
        THEN [acc EXCEPT !.filtered_by_amount = @ + 1]
    ELSE [acc EXCEPT !.valid_transactions = Append(@, t)]

RECURSIVE VFLoop(_, _, _, _, _)
VFLoop(acc, ts, region, min_amount, max_amount) ==
    IF ts = <<>> THEN acc
    ELSE VFLoop(VFStep(acc, ts[1], region, min_amount, max_amount),
                Tail(ts), region, min_amount, max_amount)

\* the whole function: min(amounts) raises ValueError on an empty list,
\* before the loop; otherwise the triple (valid, invalid_count, summary)
validate_and_filter(ts, region, min_amount, max_amount) ==
    IF ts = <<>>
    THEN [raised |-> "ValueError"]
    ELSE LET acc == VFLoop([valid_transactions |-> <<>>, invalid_count |-> 0,
                            filtered_by_region |-> 0, filtered_by_amount |-> 0],
                           ts, region, min_amount, max_amount)
         IN [raised |-> "",
             valid_transactions |-> acc.valid_transactions,
             invalid_count |-> acc.invalid_count,
             summary |-> [total_input |-> Len(ts),
                          invalid |-> acc.invalid_count,
                          filtered_by_region |-> acc.filtered_by_region,
                          filtered_by_amount |-> acc.filtered_by_amount,
                          final_count |-> Len(acc.valid_transactions)],
             regions |-> {ts[i].Region : i \in {j \in 1..Len(ts) : ts[j].Region # ""}},
             amount_min |-> CHOOSE a \in {Amount(ts[i]) : i \in 1..Len(ts)} :
                               \A j \in 1..Len(ts) : a <= Amount(ts[j]),
             amount_max |-> CHOOSE a \in {Amount(ts[i]) : i \in 1..Len(ts)} :
                               \A j \in 1..Len(ts) : a >= Amount(ts[j])]

-----------------------------------------------------------------------------
(* Python built-ins used by the aggregations *)

\* d[k] = v on a dict: a new key goes to the end, an old key keeps its place
DictSet(d, k, v) ==
    IF HasKey(d, k)
    THEN [d EXCEPT ![IndexOf(d, k)] = [key |-> k, val |-> v]]
    ELSE Append(d, [key |-> k, val |-> v])

DictGet(d, k) == d[IndexOf(d, k)].val

\* InsertSorted going in front of the elements with an equal key
RECURSIVE InsertSorted_BeforeEqual(_, _, _)
InsertSorted_BeforeEqual(sorted, x, reverse) ==
    IF sorted = <<>> THEN <<x>>
    ELSE IF (IF reverse THEN x.k >= sorted[1].k ELSE x.k <= sorted[1].k)
         THEN <<x>> \o sorted
         ELSE <<sorted[1]>> \o InsertSorted_BeforeEqual(Tail(sorted), x, reverse)

\* place of x in an already sorted list: behind every element that does not
\* have to come after it, so that equal keys keep their order
RECURSIVE InsertSorted(_, _, _)
InsertSorted(sorted, x, reverse) ==
    IF sorted = <<>> THEN <<x>>
    ELSE IF (IF reverse THEN x.k > sorted[1].k ELSE x.k < sorted[1].k)
         THEN <<x>> \o sorted
         ELSE <<sorted[1]>> \o InsertSorted(Tail(sorted), x, reverse)

RECURSIVE SortLoop(_, _, _)
SortLoop(sorted, rest, reverse) ==
    IF rest = <<>> THEN sorted
    ELSE SortLoop(InsertSorted(sorted, rest[1], reverse), Tail(rest), reverse)

\* sorted(items, key=..., reverse=...) / list.sort: items are [k |-> sort key,
\* v |-> element]; the sort is stable, also with reverse=True
Sorted(items, reverse) ==
    LET r == SortLoop(<<>>, items, reverse) IN [i \in 1..Len(r) |-> r[i].v]

RECURSIVE InsertString(_, _)
InsertString(sorted, x) ==
    IF sorted = <<>> THEN <<x>>
    ELSE IF StrLess(x, sorted[1]) THEN <<x>> \o sorted
    ELSE <<sorted[1]>> \o InsertString(Tail(sorted), x)

\* SortedStrings leaving the list as it is
SortedStrings_Unsorted(s) == s

\* sorted(strings)
RECURSIVE SortedStrings(_)
SortedStrings(s) ==
    IF s = <<>> THEN <<>>
    ELSE InsertString(SortedStrings(SubSeq(s, 1, Len(s) - 1)), s[Len(s)])

\* SliceTo keeping one element too many: lst[:n + 1]
SliceTo_OneMore(s, n) == SubSeq(s, 1, Min(n + 1, Len(s)))

\* lst[:n]
SliceTo(s, n) ==
    IF n >= 0 THEN SubSeq(s, 1, Min(n, Len(s)))
    ELSE SubSeq(s, 1, IF Len(s) + n > 0 THEN Len(s) + n ELSE 0)

\* round(num / den, 0) for num >= 0, den > 0: the nearest integer, a tie
\* going to the even one
RoundDiv(num, den) ==
    LET q == num \div den
        r == num % den
    IN  IF 2 * r < den THEN q
        ELSE IF 2 * r > den THEN q + 1
        ELSE IF q % 2 = 0 THEN q ELSE q + 1

\* lst.append(x) guarded by `if x not in lst`
AppendNew(lst, x) == IF x \in Range(lst) THEN lst ELSE Append(lst, x)

-----------------------------------------------------------------------------
(* utils/file_handler.py : parse_transactions.  A raw line and its fields  *)
(* are sequences of characters                                              *)

\* line.split(sep): the pieces between the separators, empty pieces kept
RECURSIVE Split(_, _)
Split(line, sep) ==
    IF \A i \in 1..Len(line) : line[i] # sep
    THEN <<line>>
    ELSE LET i == CHOOSE j \in 1..Len(line) :
                      line[j] = sep /\ \A k \in 1..(j - 1) : line[k] # sep
         IN  <<SubSeq(line, 1, i - 1)>> \o Split(SubSeq(line, i + 1, Len(line)), sep)

\* s.replace(",", "")
RemoveCommas(s) == SelectSeq(s, LAMBDA c : c # ",")

\* the characters of s as one string
RECURSIVE Text(_)
Text(s) == IF s = <<>> THEN "" ELSE s[1] \o Text(Tail(s))

\* s without a leading sign
Unsigned(s) == IF StartsWith(s, "-") \/ StartsWith(s, "+") THEN Tail(s) ELSE s

\* whether int(s) returns, over the alphabet of the model: an optional sign
\* and a non-empty run of digits
ConvertsToInt(s) == ParsesAsNumber(Unsigned(s))

\* int(s)
IntValue(s) ==
    IF StartsWith(s, "-") THEN 0 - NumberValue(Unsigned(s))
    ELSE NumberValue(Unsigned(s))

\* whether float(s) returns, over the alphabet of the model: an optional
\* sign, then digits with at most one point among them and one digit at least
ConvertsToFloat(s) ==
    LET u == Unsigned(s)
        points == {i \in 1..Len(u) : u[i] = "."}
    IN  /\ \A i \in 1..Len(u) : u[i] \in Digits \cup {"."}
        /\ Cardinality(points) <= 1
        /\ Len(u) > Cardinality(points)

\* float(s) for a price of the model, whose digits after the point are zeros:
\* the number before the point
FloatValue(s) ==
    LET u == Unsigned(s)
        whole == IF \E i \in 1..Len(u) : u[i] = "."
                 THEN SubSeq(u, 1, (CHOOSE i \in 1..Len(u) : u[i] = ".") - 1)
                 ELSE u
    IN  IF StartsWith(s, "-") THEN 0 - NumberValue(whole) ELSE NumberValue(whole)

\* ParseLine converting the quantity as it stands, commas included
ParseLine_CommasInQuantity(line) ==
    LET parts == Split(line, "|")
    IN  IF Len(parts) # 8 THEN <<>>
        ELSE IF ~ConvertsToInt(parts[5]) \/ ~ConvertsToFloat(RemoveCommas(parts[6]))
        THEN <<>>
        ELSE <<[TransactionID |-> parts[1], Date |-> parts[2],
                ProductID |-> parts[3],
                ProductName |-> Text(RemoveCommas(parts[4])),
                Quantity |-> IntValue(parts[5]),
                UnitPrice |-> FloatValue(RemoveCommas(parts[6])),
                CustomerID |-> parts[7], Region |-> Text(parts[8])]>>

\* one iteration of `for line in raw_lines`: the record appended, or nothing
\* when the line is skipped (`continue`)
ParseLine(line) ==
    LET parts == Split(line, "|")
    IN  IF Len(parts) # 8 THEN <<>>
        ELSE IF \/ ~ConvertsToInt(RemoveCommas(parts[5]))
                \/ ~ConvertsToFloat(RemoveCommas(parts[6]))
        THEN <<>>
        ELSE <<[TransactionID |-> parts[1], Date |-> parts[2],
                ProductID |-> parts[3],
                ProductName |-> Text(RemoveCommas(parts[4])),
                Quantity |-> IntValue(RemoveCommas(parts[5])),
                UnitPrice |-> FloatValue(RemoveCommas(parts[6])),
                CustomerID |-> parts[7], Region |-> Text(parts[8])]>>

\* the list parse_transactions returns
RECURSIVE parse_transactions(_)
parse_transactions(raw_lines) ==
    IF raw_lines = <<>> THEN <<>>
    ELSE parse_transactions(SubSeq(raw_lines, 1, Len(raw_lines) - 1))
            \o ParseLine(raw_lines[Len(raw_lines)])

-----------------------------------------------------------------------------
(* utils/data_processor.py *)

RECURSIVE calculate_total_revenue(_)
calculate_total_revenue(ts) ==
    IF ts = <<>> THEN 0
    ELSE calculate_total_revenue(SubSeq(ts, 1, Len(ts) - 1)) + Amount(ts[Len(ts)])

\* the grouping loop of region_wise_sales
RECURSIVE RegionLoop(_, _)
RegionLoop(region_data, ts) ==
    IF ts = <<>> THEN region_data
    ELSE LET t == ts[1]
             old == IF HasKey(region_data, t.Region)
                    THEN DictGet(region_data, t.Region)
                    ELSE [total_sales |-> 0, transaction_count |-> 0]
         IN RegionLoop(DictSet(region_data, t.Region,
                          [total_sales |-> old.total_sales + Amount(t),
                           transaction_count |-> old.transaction_count + 1]),
                       Tail(ts))

\* Percentage cut off after two decimals instead of rounded
Percentage_Truncated(sales, total_sales) == (sales * 10000) \div total_sales

\* round(total_sales / grand total * 100, 2), in hundredths of a percent
Percentage(sales, total_sales) == RoundDiv(sales * 10000, total_sales)

\* items of the returned dict, in its iteration order; percentage is in
\* hundredths of a percent.  The division raises when the grand total is 0
\* and there is a region.
region_wise_sales(ts) ==
    LET total_sales == calculate_total_revenue(ts)
        region_data == RegionLoop(<<>>, ts)
    IN  IF region_data # <<>> /\ total_sales = 0
        THEN [raised |-> "ZeroDivisionError"]
        ELSE [raised |-> "",
              value |-> Sorted(
                 [i \in 1..Len(region_data) |->
                    [k |-> region_data[i].val.total_sales,
                     v |-> [key |-> region_data[i].key,
                            total_sales |-> region_data[i].val.total_sales,
                            transaction_count |-> region_data[i].val.transaction_count,
                            percentage |-> Percentage(region_data[i].val.total_sales,
                                                      total_sales)]]],
                 TRUE)]

\* the grouping loop shared (as duplicated code) by top_selling_products
\* and low_performing_products
RECURSIVE ProductLoop(_, _)
ProductLoop(product_data, ts) ==
    IF ts = <<>> THEN product_data
    ELSE LET t == ts[1]
             old == IF HasKey(product_data, t.ProductName)
                    THEN DictGet(product_data, t.ProductName)
                    ELSE [qty |-> 0, revenue |-> 0]
         IN ProductLoop(DictSet(product_data, t.ProductName,
                           [qty |-> old.qty + t.Quantity,
                            revenue |-> old.revenue + Amount(t)]),
                        Tail(ts))

\* list of (name, qty, revenue)
top_selling_products(ts, n) ==
    LET product_data == ProductLoop(<<>>, ts)
        result == [i \in 1..Len(product_data) |->
                     [k |-> product_data[i].val.qty,
                      v |-> <<product_data[i].key, product_data[i].val.qty,
                              product_data[i].val.revenue>>]]
    IN  SliceTo(Sorted(result, TRUE), n)

RECURSIVE CustomerLoop(_, _)
CustomerLoop(customer_data, ts) ==
    IF ts = <<>> THEN customer_data
    ELSE LET t == ts[1]
             old == IF HasKey(customer_data, t.CustomerID)
                    THEN DictGet(customer_data, t.CustomerID)
                    ELSE [total_spent |-> 0, purchase_count |-> 0,
                          products_bought |-> <<>>]
         IN CustomerLoop(DictSet(customer_data, t.CustomerID,
                            [total_spent |-> old.total_spent + Amount(t),
                             purchase_count |-> old.purchase_count + 1,
                             products_bought |->
                                 AppendNew(old.products_bought, t.ProductName)]),
                         Tail(ts))

\* items of the returned dict; avg_order_value is in hundredths
customer_analysis(ts) ==
    LET customer_data == CustomerLoop(<<>>, ts)
    IN  Sorted([i \in 1..Len(customer_data) |->
                  [k |-> customer_data[i].val.total_spent,
                   v |-> [key |-> customer_data[i].key,
                          total_spent |-> customer_data[i].val.total_spent,
                          purchase_count |-> customer_data[i].val.purchase_count,
                          products_bought |-> customer_data[i].val.products_bought,
                          avg_order_value |->
                              RoundDiv(customer_data[i].val.total_spent * 100,
                                       customer_data[i].val.purchase_count)]]],
               TRUE)

RECURSIVE DailyLoop(_, _)
DailyLoop(daily_data, ts) ==
    IF ts = <<>> THEN daily_data
    ELSE LET t == ts[1]
             old == IF HasKey(daily_data, t.Date)
                    THEN DictGet(daily_data, t.Date)
                    ELSE [revenue |-> 0, transaction_count |-> 0, customers |-> <<>>]
         IN DailyLoop(DictSet(daily_data, t.Date,
                         [revenue |-> old.revenue + Amount(t),
                          transaction_count |-> old.transaction_count + 1,
                          customers |-> AppendNew(old.customers, t.CustomerID)]),
                      Tail(ts))

\* items of the returned dict, in its iteration order
daily_sales_trend(ts) ==
    LET daily_data == DailyLoop(<<>>, ts)
        dates == SortedStrings(Keys(daily_data))
    IN  [i \in 1..Len(dates) |->
            [key |-> dates[i],
             revenue |-> DictGet(daily_data, dates[i]).revenue,
             transaction_count |-> DictGet(daily_data, dates[i]).transaction_count,
             unique_customers |-> Len(DictGet(daily_data, dates[i]).customers)]]

\* PeakLoop with `>=`: the last of the days with the highest revenue wins
RECURSIVE PeakLoop_LastWins(_, _)
PeakLoop_LastWins(best, daily_data) ==
    IF daily_data = <<>> THEN best
    ELSE PeakLoop_LastWins(IF daily_data[1].revenue >= best[2]
                           THEN <<daily_data[1].key, daily_data[1].revenue,
                                  daily_data[1].transaction_count>>
                           ELSE best,
                           Tail(daily_data))

\* the scan of find_peak_sales_day: best is (peak_date, max_revenue, count)
RECURSIVE PeakLoop(_, _)
PeakLoop(best, daily_data) ==
    IF daily_data = <<>> THEN best
    ELSE PeakLoop(IF daily_data[1].revenue > best[2]
                  THEN <<daily_data[1].key, daily_data[1].revenue,
                         daily_data[1].transaction_count>>
                  ELSE best,
                  Tail(daily_data))

find_peak_sales_day(ts) == PeakLoop(<<<<>>, 0, 0>>, daily_sales_trend(ts))

\* low_performing_products with `<=` for `<`
low_performing_products_Inclusive(ts, threshold) ==
    LET product_data == ProductLoop(<<>>, ts)
        below == SelectSeq(product_data, LAMBDA e : e.val.qty <= threshold)
    IN  Sorted([i \in 1..Len(below) |->
                  [k |-> below[i].val.qty,
                   v |-> <<below[i].key, below[i].val.qty, below[i].val.revenue>>]],
               FALSE)

\* list of (name, qty, revenue)
low_performing_products(ts, threshold) ==
    LET product_data == ProductLoop(<<>>, ts)
        below == SelectSeq(product_data, LAMBDA e : e.val.qty < threshold)
    IN  Sorted([i \in 1..Len(below) |->
                  [k |-> below[i].val.qty,
                   v |-> <<below[i].key, below[i].val.qty, below[i].val.revenue>>]],
               FALSE)

-----------------------------------------------------------------------------
(* utils/api_handler.py *)

ProductKeys == {"id", "title", "category", "brand", "price", "rating"}

\* resp is what requests.get / response.json() gave: [ok |-> FALSE] when
\* either raised, else [ok |-> TRUE, products |-> list of JSON objects].
\* A product lacking one of the six keys raises KeyError inside the try,
\* and any exception makes the function return [].
fetch_all_products(resp) ==
    IF ~resp.ok THEN <<>>
    ELSE IF \E i \in 1..Len(resp.products) :
                ~(ProductKeys \subseteq DOMAIN resp.products[i]) THEN <<>>
    ELSE [i \in 1..Len(resp.products) |->
            [k \in ProductKeys |-> resp.products[i][k]]]

RECURSIVE create_product_mapping(_)
create_product_mapping(products) ==
    IF products = <<>> THEN <<>>
    ELSE LET p == products[Len(products)]
         IN DictSet(create_product_mapping(SubSeq(products, 1, Len(products) - 1)),
                    p.id,
                    [title |-> p.title, category |-> p.category,
                     brand |-> p.brand, rating |-> p.rating])

\* product_id.replace("P", ""): every "P" goes, not only the first
ReplaceP(product_id) == SelectSeq(product_id, LAMBDA c : c # "P")

\* the try/except around int(...): None when int() raises
NumericId(product_id) ==
    IF ParsesAsNumber(ReplaceP(product_id))
    THEN Some(NumberValue(ReplaceP(product_id)))
    ELSE None

\* `numeric_id in product_mapping` (the keys of the mapping are numbers)
InMapping(numeric_id, product_mapping) ==
    numeric_id # None /\ HasKey(product_mapping, numeric_id[1])

\* EnrichOne with the flag set before the lookup and not reset in the else
\* branch
EnrichOne_FlagNotReset(t, product_mapping) ==
    LET numeric_id == NumericId(t.ProductID)
        base == [TransactionID |-> t.TransactionID, Date |-> t.Date,
                 ProductID |-> t.ProductID, ProductName |-> t.ProductName,
                 Quantity |-> t.Quantity, UnitPrice |-> t.UnitPrice,
                 CustomerID |-> t.CustomerID, Region |-> t.Region]
    IN  IF InMapping(numeric_id, product_mapping)
        THEN LET m == DictGet(product_mapping, numeric_id[1])
             IN  base @@ [API_Category |-> Some(m.category),
                          API_Brand |-> Some(m.brand),
                          API_Rating |-> Some(m.rating),
                          API_Match |-> TRUE]
        ELSE base @@ [API_Category |-> None, API_Brand |-> None,
                      API_Rating |-> None, API_Match |-> TRUE]

\* new_t: the copy of t with the four API_ fields
EnrichOne(t, product_mapping) ==
    LET numeric_id == NumericId(t.ProductID)
        base == [TransactionID |-> t.TransactionID, Date |-> t.Date,
                 ProductID |-> t.ProductID, ProductName |-> t.ProductName,
                 Quantity |-> t.Quantity, UnitPrice |-> t.UnitPrice,
                 CustomerID |-> t.CustomerID, Region |-> t.Region]
    IN  IF InMapping(numeric_id, product_mapping)
        THEN LET m == DictGet(product_mapping, numeric_id[1])
             IN  base @@ [API_Category |-> Some(m.category),
                          API_Brand |-> Some(m.brand),
                          API_Rating |-> Some(m.rating),
                          API_Match |-> TRUE]
        ELSE base @@ [API_Category |-> None, API_Brand |-> None,
                      API_Rating |-> None, API_Match |-> FALSE]

\* EnrichStep without the copy (`new_t = t`): the four assignments land in
\* the caller's record
EnrichStep_NoCopy(t, product_mapping) ==
    [t |-> EnrichOne(t, product_mapping), new_t |-> EnrichOne(t, product_mapping)]

\* one iteration on the caller's record t: new_t is t.copy(), a dict of its
\* own, so the assignments to new_t leave t as it was
EnrichStep(t, product_mapping) ==
    [t |-> t, new_t |-> EnrichOne(t, product_mapping)]

\* the caller's list after enrich_sales_data has run over it
enrich_sales_data_input(ts, product_mapping) ==
    [i \in 1..Len(ts) |-> EnrichStep(ts[i], product_mapping).t]

\* the list enrich_sales_data returns
enrich_sales_data(ts, product_mapping) ==
    [i \in 1..Len(ts) |-> EnrichStep(ts[i], product_mapping).new_t]

\* str(x) of an optional API_ field: the text None, or the value
StrOpt(o) == IF o = None THEN "None" ELSE o[1]

\* the data rows save_enriched_data writes (the header line is fixed); the
\* decimal formatting of the two numbers is not modelled
save_enriched_data(enriched) ==
    [i \in 1..Len(enriched) |->
        <<enriched[i].TransactionID, enriched[i].Date, enriched[i].ProductID,
          enriched[i].ProductName, enriched[i].Quantity, enriched[i].UnitPrice,
          enriched[i].CustomerID, enriched[i].Region,
          StrOpt(enriched[i].API_Category), StrOpt(enriched[i].API_Brand),
          StrOpt(enriched[i].API_Rating),
          IF enriched[i].API_Match THEN "True" ELSE "False">>]

\* default arguments of top_selling_products and low_performing_products
DefaultN == 5

DefaultThreshold == 10

-----------------------------------------------------------------------------
(* report_generator.py *)

\* section 1, written before anything is computed
ReportHeader(ts) == <<"HEADER", Len(ts)>>

\* section 2; the caller has made sure ts is not empty.  The average is in
\* hundredths, as "{:,.2f}" prints it
ReportSummary(ts) ==
    LET total_revenue == calculate_total_revenue(ts)
        dates == SortedStrings([i \in 1..Len(ts) |-> ts[i].Date])
    IN  <<"OVERALL SUMMARY", total_revenue, Len(ts),
          RoundDiv(total_revenue * 100, Len(ts)), dates[1], dates[Len(dates)]>>

\* sections 3 to 7, from the seven aggregations
ReportAnalysis(ts, region_data) ==
    <<<<"REGION-WISE PERFORMANCE", region_data>>,
      <<"TOP 5 PRODUCTS", top_selling_products(ts, 5)>>,
      <<"TOP 5 CUSTOMERS", SliceTo(customer_analysis(ts), 5)>>,
      <<"DAILY SALES TREND", daily_sales_trend(ts)>>,
      <<"PRODUCT PERFORMANCE ANALYSIS", find_peak_sales_day(ts),
        low_performing_products(ts, DefaultThreshold)>>>>

\* section 8; the caller has made sure enriched_ts is not empty.
\* The rate is in hundredths of a percent
ReportEnrichment(enriched_ts) ==
    LET enriched == SelectSeq(enriched_ts, LAMBDA t : t.API_Match)
        not_enriched == SelectSeq(enriched_ts, LAMBDA t : ~t.API_Match)
    IN  <<"API ENRICHMENT SUMMARY", Len(enriched),
          RoundDiv(Len(enriched) * 10000, Len(enriched_ts)),
          [i \in 1..Len(not_enriched) |->
              <<not_enriched[i].ProductID, not_enriched[i].ProductName>>]>>

\* what generate_sales_report leaves in the file, and the exception it ends
\* with: the divisions of lines 57 and 140 have no guard, and what was
\* written before the exception stays in the file
generate_sales_report(ts, enriched_ts) ==
    IF ts = <<>>
    THEN [raised |-> "ZeroDivisionError", file |-> <<ReportHeader(ts)>>]
    ELSE LET region_data == region_wise_sales(ts)
             upto2 == <<ReportHeader(ts), ReportSummary(ts)>>
         IN  IF region_data.raised # ""
             THEN [raised |-> region_data.raised, file |-> upto2]
             ELSE LET upto7 == upto2 \o ReportAnalysis(ts, region_data.value)
                  IN  IF enriched_ts = <<>>
                      THEN [raised |-> "ZeroDivisionError", file |-> upto7]
                      ELSE [raised |-> "",
                            file |-> Append(upto7,
                                       ReportEnrichment(enriched_ts))]

-----------------------------------------------------------------------------
(* Inputs of the model *)

Rec(tid, date, pid, pname, qty, price, cid, region) ==
    [TransactionID |-> tid, Date |-> date, ProductID |-> pid,
     ProductName |-> pname, Quantity |-> qty, UnitPrice |-> price,
     CustomerID |-> cid, Region |-> region]

Date1 == <<"2", "0", "2", "4", "-", "0", "1", "-", "1", "0">>

Date2 == <<"2", "0", "2", "4", "-", "0", "1", "-", "0", "2">>

Date3 == <<"2", "0", "2", "3", "-", "1", "2", "-", "3", "1">>

GroupDate(g) == CASE g = 1 -> Date1 [] g = 2 -> Date2 [] g = 3 -> Date3

GroupRegion(g) == CASE g = 1 -> "North" [] g = 2 -> "South" [] g = 3 -> "East"

GroupProduct(g) == CASE g = 1 -> "Pen" [] g = 2 -> "Book" [] g = 3 -> "Ink"

\* product identifiers: plain, with a second "P" inside, with a letter
\* int() rejects, and the bare prefix
ProductIdOf(g, c) ==
    CASE g = 1 /\ c = 1 -> <<"P", "1">>
      [] g = 1 /\ c = 2 -> <<"P", "1", "P", "2">>
      [] g = 2 /\ c = 1 -> <<"P", "2">>
      [] g = 2 /\ c = 2 -> <<"P", "X">>
      [] g = 3 /\ c = 1 -> <<"P", "1", "2">>
      [] g = 3 /\ c = 2 -> <<"P">>

CustomerOf(c) == IF c = 1 THEN <<"C", "1">> ELSE <<"C", "2">>

\* records that pass validation: three regions / products / dates, and
\* three (customer, quantity, price) variants
ValidRecords ==
    {Rec(<<"T", "1">>, GroupDate(g), ProductIdOf(g, v[1]), GroupProduct(g),
         v[2], v[3], CustomerOf(v[1]), GroupRegion(g)) :
        g \in 1..3, v \in {<<1, 1, 20>>, <<2, 2, 15>>, <<2, 1, 20>>}}

\* parsed records for the validator: valid ones in two regions and three
\* amounts, and one record for each way of being invalid
ParsedRecords ==
    {Rec(<<"T", "1">>, Date1, <<"P", "1">>, "Pen", 1, 20, <<"C", "1">>, "North"),
     Rec(<<"T", "1">>, Date1, <<"P", "1">>, "Pen", 2, 15, <<"C", "1">>, "North"),
     Rec(<<"T", "1">>, Date1, <<"P", "1">>, "Pen", 2, 15, <<"C", "1">>, "South"),
     Rec(<<"T", "1">>, Date1, <<"P", "1">>, "Pen", 2, 20, <<"C", "1">>, "South"),
     Rec(<<"T", "2">>, Date2, <<"P", "2">>, "Book", 0, 20, <<"C", "2">>, "North"),
     Rec(<<"T", "3">>, Date2, <<"P", "2">>, "Book", -1, 20, <<"C", "2">>, "South"),
     Rec(<<"T", "4">>, Date2, <<"P", "2">>, "Book", 1, 0, <<"C", "2">>, "North"),
     Rec(<<"X", "5">>, Date2, <<"P", "2">>, "Book", 1, 20, <<"C", "2">>, "North"),
     Rec(<<"T", "6">>, Date2, <<"p", "2">>, "Book", 2, 15, <<"C", "2">>, "South"),
     Rec(<<"T", "7">>, Date2, <<"P", "2">>, "Book", 2, 20, <<>>, "North")}

\* parsed records for a run of main
MainRecords ==
    {Rec(<<"T", "1">>, Date1, <<"P", "1">>, "Pen", 1, 20, <<"C", "1">>, "North"),
     Rec(<<"T", "2">>, Date2, <<"P", "2">>, "Book", 2, 15, <<"C", "2">>, "South"),
     Rec(<<"T", "3">>, Date1, <<"P", "X">>, "Ink", 2, 20, <<"C", "1">>, "North"),
     Rec(<<"T", "4">>, Date2, <<"P", "1">>, "Pen", 0, 20, <<"C", "2">>, "North"),
     Rec(<<"T", "5">>, Date3, <<"Q", "2">>, "Book", 2, 15, <<"C", "1">>, "South")}

Product(id, category, brand, rating) ==
    [id |-> id, title |-> "title", category |-> category, brand |-> brand,
     price |-> 10, rating |-> rating]

\* answers of the catalog: failure, an empty catalog, catalogs, and a
\* catalog with an entry that has no brand
ApiResponses ==
    {[ok |-> FALSE],
     [ok |-> TRUE, products |-> <<>>],
     [ok |-> TRUE, products |-> <<Product(1, "pens", "Bic", 469),
                                  Product(2, "books", "Tor", 444)>>],
     [ok |-> TRUE, products |-> <<Product(12, "inks", "Lamy", 388),
                                  Product(1, "pens", "Bic", 469)>>],
     [ok |-> TRUE, products |-> <<Product(1, "pens", "Bic", 469),
                                  [id |-> 2, title |-> "title", category |-> "books",
                                   price |-> 10, rating |-> 444]>>]}

\* answers at the four prompts of main
Answers(apply, region, min_amt, max_amt) ==
    [apply |-> apply, region |-> region, min_amt |-> min_amt, max_amt |-> max_amt]

Stdin ==
    {Answers("n", "", <<>>, <<>>), Answers("Y", "", <<>>, <<>>)}
    \cup
    {Answers("y", r, lo, hi) :
        r \in {"", "North"},
        lo \in {<<>>, <<"0">>, <<"3", "0">>, <<"x">>},
        hi \in {<<>>, <<"0">>, <<"2", "0">>}}

\* str.lower() on the answers of the model
Lower(s) == IF s = "Y" THEN "y" ELSE s

NoCall == [op |-> "none"]

NoSummary == [total_input |-> 0, invalid |-> 0, filtered_by_region |-> 0,
              filtered_by_amount |-> 0, final_count |-> 0]

NoAnswers == Answers("n", "", <<>>, <<>>)

-----------------------------------------------------------------------------
(* main.py : main() from the filter options on, one action per statement   *)
(* group; an exception ends the run in main's except clause                 *)

InitMain ==
    /\ pc = "options"
    /\ stdin \in Stdin
    /\ api \in {[ok |-> FALSE],
                [ok |-> TRUE, products |-> <<Product(1, "pens", "Bic", 469),
                                             Product(2, "books", "Tor", 444)>>]}
    /\ parsed \in SeqsUpTo(MainRecords, MaxLen)
    /\ transactions = parsed
    /\ args = NoCall
    /\ ret = NoCall
    /\ invalid_count = 0
    /\ summary = NoSummary
    /\ api_products = <<>>
    /\ enriched_transactions = <<>>
    /\ enriched_file = <<>>
    /\ report_file = <<>>
    /\ error = ""

Fail(e) ==
    /\ pc' = "failed"
    /\ error' = e

\* lines 61-65: min(amounts) of an empty list raises ValueError
ShowFilterOptions ==
    /\ pc = "options"
    /\ IF transactions = <<>>
       THEN Fail("ValueError")
       ELSE pc' = "prompt" /\ UNCHANGED error
    /\ UNCHANGED <<stdin, api, parsed, transactions, args, ret, invalid_count,
                   summary, api_products, enriched_transactions,
                   enriched_file, report_file>>

\* `float(x) if x else None`
FloatOrNone(x) == IF x = <<>> THEN None ELSE Some(NumberValue(x))

\* lines 66-73 and the argument list of line 74 or 78
AskFilter ==
    /\ pc = "prompt"
    /\ IF Lower(stdin.apply) = "y"
       THEN IF \E x \in {stdin.min_amt, stdin.max_amt} :
                   x # <<>> /\ ~ParsesAsNumber(x)
            THEN Fail("ValueError") /\ UNCHANGED args
            ELSE /\ args' = [op |-> "validate_and_filter",
                             region |-> IF stdin.region # ""
                                        THEN Some(stdin.region) ELSE None,
                             min_amount |-> FloatOrNone(stdin.min_amt),
                             max_amount |-> FloatOrNone(stdin.max_amt)]
                 /\ pc' = "validate"
                 /\ UNCHANGED error
       ELSE /\ args' = [op |-> "validate_and_filter", region |-> None,
                        min_amount |-> None, max_amount |-> None]
            /\ pc' = "validate"
            /\ UNCHANGED error
    /\ UNCHANGED <<stdin, api, parsed, transactions, ret, invalid_count,
                   summary, api_products, enriched_transactions,
                   enriched_file, report_file>>

\* lines 74-78: the call, and the assignment of its three results
ValidateAndFilter ==
    /\ pc = "validate"
    /\ LET r == validate_and_filter(transactions, args.region, args.min_amount,
                                    args.max_amount)
       IN  /\ ret' = r
           /\ IF r.raised # ""
              THEN Fail(r.raised) /\ UNCHANGED <<transactions, invalid_count,
                   summary>>
              ELSE /\ transactions' = r.valid_transactions
                   /\ invalid_count' = r.invalid_count
                   /\ summary' = r.summary
                   /\ pc' = "revenue"
                   /\ UNCHANGED error
    /\ UNCHANGED <<stdin, api, parsed, args, api_products,
                   enriched_transactions,
                   enriched_file, report_file>>

\* a call of main's step 5 whose result main drops
Analysis(at, call, value, next) ==
    /\ pc = at
    /\ args' = call
    /\ ret' = value
    /\ pc' = next
    /\ UNCHANGED <<stdin, api, parsed, transactions, invalid_count, summary,
                   api_products, enriched_transactions, enriched_file,
                   report_file, error>>

MainTotalRevenue ==
    Analysis("revenue", [op |-> "calculate_total_revenue"],
             calculate_total_revenue(transactions), "region")

MainRegionWiseSales ==
    /\ pc = "region"
    /\ args' = [op |-> "region_wise_sales"]
    /\ ret' = region_wise_sales(transactions)
    /\ IF ret'.raised # "" THEN Fail(ret'.raised)
                           ELSE pc' = "top" /\ UNCHANGED error
    /\ UNCHANGED <<stdin, api, parsed, transactions, invalid_count, summary,
                   api_products, enriched_transactions, enriched_file,
                   report_file>>

MainTopSellingProducts ==
    Analysis("top", [op |-> "top_selling_products", n |-> DefaultN],
             top_selling_products(transactions, DefaultN), "customer")

MainCustomerAnalysis ==
    Analysis("customer", [op |-> "customer_analysis"],
             customer_analysis(transactions), "daily")

MainDailySalesTrend ==
    Analysis("daily", [op |-> "daily_sales_trend"],
             daily_sales_trend(transactions), "peak")

MainFindPeakSalesDay ==
    Analysis("peak", [op |-> "find_peak_sales_day"],
             find_peak_sales_day(transactions), "low")

MainLowPerformingProducts ==
    Analysis("low", [op |-> "low_performing_products", threshold |-> DefaultThreshold],
             low_performing_products(transactions, DefaultThreshold), "fetch")

\* lines 96-98
FetchProducts ==
    /\ pc = "fetch"
    /\ args' = [op |-> "fetch_all_products"]
    /\ ret' = fetch_all_products(api)
    /\ api_products' = ret'
    /\ pc' = "enrich"
    /\ UNCHANGED <<stdin, api, parsed, transactions, invalid_count, summary,
                   enriched_transactions, enriched_file, report_file, error>>

\* lines 101-103: the mapping, the join, and the file the join writes
EnrichSalesData ==
    /\ pc = "enrich"
    /\ LET product_mapping == create_product_mapping(api_products)
       IN  /\ args' = [op |-> "enrich_sales_data", product_mapping |-> product_mapping]
           /\ ret' = enrich_sales_data(transactions, product_mapping)
           /\ transactions' = enrich_sales_data_input(transactions, product_mapping)
    /\ enriched_transactions' = ret'
    /\ enriched_file' = save_enriched_data(ret')
    /\ pc' = "rate"
    /\ UNCHANGED <<stdin, api, parsed, invalid_count, summary, api_products,
                   report_file, error>>

\* lines 104-107: the success rate, shown with one decimal (in tenths of a
\* percent here); the division raises on an empty list
SuccessRate ==
    /\ pc = "rate"
    /\ args' = [op |-> "success_rate"]
    /\ LET enriched_count ==
               Cardinality({i \in 1..Len(enriched_transactions) :
                               enriched_transactions[i].API_Match})
       IN  IF enriched_transactions = <<>>
           THEN Fail("ZeroDivisionError") /\ UNCHANGED ret
           ELSE /\ ret' = [enriched_count |-> enriched_count,
                           success_rate |-> RoundDiv(enriched_count * 1000,
                                                     Len(enriched_transactions))]
                /\ pc' = "report"
                /\ UNCHANGED error
    /\ UNCHANGED <<stdin, api, parsed, transactions, invalid_count, summary,
                   api_products, enriched_transactions, enriched_file,
                   report_file>>

\* line 115: the report is written from main's two lists
GenerateSalesReport ==
    /\ pc = "report"
    /\ args' = [op |-> "generate_sales_report"]
    /\ LET r == generate_sales_report(transactions, enriched_transactions)
       IN  /\ report_file' = r.file
           /\ IF r.raised # ""
              THEN Fail(r.raised)
              ELSE pc' = "done" /\ UNCHANGED error
    /\ UNCHANGED <<stdin, api, parsed, transactions, ret, invalid_count, summary,
                   api_products, enriched_transactions, enriched_file>>

NextMain ==
    \/ ShowFilterOptions
    \/ AskFilter
    \/ ValidateAndFilter
    \/ MainTotalRevenue
    \/ MainRegionWiseSales
    \/ MainTopSellingProducts
    \/ MainCustomerAnalysis
    \/ MainDailySalesTrend
    \/ MainFindPeakSalesDay
    \/ MainLowPerformingProducts
    \/ FetchProducts
    \/ EnrichSalesData
    \/ SuccessRate
    \/ GenerateSalesReport

Spec == InitMain /\ [][NextMain]_vars

-----------------------------------------------------------------------------
(* The functions called directly, as report_generator.py and a test would: *)
(* any function, any number of times, in any order, on one record list      *)

InitIdle ==
    /\ stdin = NoAnswers
    /\ api = [ok |-> FALSE]
    /\ transactions = parsed
    /\ args = NoCall
    /\ ret = NoCall
    /\ invalid_count = 0
    /\ summary = NoSummary
    /\ api_products = <<>>
    /\ enriched_transactions = <<>>
    /\ enriched_file = <<>>
    /\ report_file = <<>>
    /\ error = ""

\* a call that only returns a value
Call(call, value) ==
    /\ pc = "lib"
    /\ args' = call
    /\ ret' = value
    /\ UNCHANGED <<pc, stdin, api, parsed, transactions, invalid_count,
                   summary,
                   api_products, enriched_transactions, enriched_file,
                   report_file, error>>

LibTotalRevenue ==
    Call([op |-> "calculate_total_revenue"], calculate_total_revenue(transactions))

LibRegionWiseSales ==
    Call([op |-> "region_wise_sales"], region_wise_sales(transactions))

LibTopSellingProducts ==
    \E n \in {0, 1, 2, DefaultN} :
        Call([op |-> "top_selling_products", n |-> n],
             top_selling_products(transactions, n))

LibCustomerAnalysis ==
    Call([op |-> "customer_analysis"], customer_analysis(transactions))

LibDailySalesTrend ==
    Call([op |-> "daily_sales_trend"], daily_sales_trend(transactions))

LibFindPeakSalesDay ==
    Call([op |-> "find_peak_sales_day"], find_peak_sales_day(transactions))

LibLowPerformingProducts ==
    \E threshold \in {1, 3, DefaultThreshold} :
        Call([op |-> "low_performing_products", threshold |-> threshold],
             low_performing_products(transactions, threshold))

InitLib ==
    /\ pc = "lib"
    /\ parsed \in SeqsUpTo(ValidRecords, MaxLen)
    /\ InitIdle

NextLib ==
    \/ LibTotalRevenue
    \/ LibRegionWiseSales
    \/ LibTopSellingProducts
    \/ LibCustomerAnalysis
    \/ LibDailySalesTrend
    \/ LibFindPeakSalesDay
    \/ LibLowPerformingProducts

SpecLib == InitLib /\ [][NextLib]_vars

-----------------------------------------------------------------------------
(* validate_and_filter called directly on a parsed list, with any filters *)

Regions == {None, Some(""), Some("North"), Some("West")}

MinAmounts == {None, Some(0), Some(30)}

MaxAmounts == {None, Some(0), Some(30), Some(-5)}

InitVF ==
    /\ pc = "vf"
    /\ parsed \in SeqsUpTo(ParsedRecords, MaxLen)
    /\ InitIdle

LibValidateAndFilter ==
    /\ pc = "vf"
    /\ \E region \in Regions, min_amount \in MinAmounts, max_amount \in MaxAmounts :
        /\ args' = [op |-> "validate_and_filter", region |-> region,
                    min_amount |-> min_amount, max_amount |-> max_amount]
        /\ ret' = validate_and_filter(transactions, region, min_amount, max_amount)
    /\ pc' = "vf_done"
    /\ UNCHANGED <<stdin, api, parsed, transactions, invalid_count, summary,
                   api_products, enriched_transactions, enriched_file,
                   report_file, error>>

NextVF == LibValidateAndFilter

SpecVF == InitVF /\ [][NextVF]_vars

-----------------------------------------------------------------------------
(* The enrichment chain called directly: fetch_all_products, then          *)
(* create_product_mapping and enrich_sales_data on its result, then         *)
(* generate_sales_report on the list and its enrichment                     *)

InitEnrich ==
    /\ pc = "lib_fetch"
    /\ parsed \in SeqsUpTo(ValidRecords, MaxLen)
    /\ stdin = NoAnswers
    /\ api \in ApiResponses
    /\ transactions = parsed
    /\ args = NoCall
    /\ ret = NoCall
    /\ invalid_count = 0
    /\ summary = NoSummary
    /\ api_products = <<>>
    /\ enriched_transactions = <<>>
    /\ enriched_file = <<>>
    /\ report_file = <<>>
    /\ error = ""

LibFetchAllProducts ==
    /\ pc = "lib_fetch"
    /\ args' = [op |-> "fetch_all_products"]
    /\ ret' = fetch_all_products(api)
    /\ api_products' = ret'
    /\ pc' = "lib_enrich"
    /\ UNCHANGED <<stdin, api, parsed, transactions, invalid_count, summary,
                   enriched_transactions, enriched_file, report_file, error>>

LibEnrichSalesData ==
    /\ pc = "lib_enrich"
    /\ LET product_mapping == create_product_mapping(api_products)
       IN  /\ args' = [op |-> "enrich_sales_data", product_mapping |-> product_mapping]
           /\ ret' = enrich_sales_data(transactions, product_mapping)
           /\ transactions' = enrich_sales_data_input(transactions, product_mapping)
    /\ enriched_transactions' = ret'
    /\ enriched_file' = save_enriched_data(ret')
    /\ pc' = "lib_enriched"
    /\ UNCHANGED <<stdin, api, parsed, invalid_count, summary, api_products,
                   report_file, error>>

\* generate_sales_report on the list and its enrichment
LibGenerateSalesReport ==
    /\ pc = "lib_enriched"
    /\ args' = [op |-> "generate_sales_report"]
    /\ LET r == generate_sales_report(transactions, enriched_transactions)
       IN  /\ ret' = [raised |-> r.raised]
           /\ report_file' = r.file
    /\ pc' = "lib_reported"
    /\ UNCHANGED <<stdin, api, parsed, transactions, invalid_count, summary,
                   api_products, enriched_transactions, enriched_file, error>>

NextEnrich ==
    \/ LibFetchAllProducts
    \/ LibEnrichSalesData
    \/ LibGenerateSalesReport

SpecEnrich == InitEnrich /\ [][NextEnrich]_vars

-----------------------------------------------------------------------------
(* Properties *)

\* the record is one the validation rules reject, spelled out as in the
\* specification: quantity or price not positive, or an identifier without
\* its prefix letter
Rejected(t) ==
    \/ t.Quantity <= 0
    \/ t.UnitPrice <= 0
    \/ t.TransactionID = <<>> \/ t.TransactionID[1] # "T"
    \/ t.ProductID = <<>> \/ t.ProductID[1] # "P"
    \/ t.CustomerID = <<>> \/ t.CustomerID[1] # "C"

Count(s, P(_)) == Cardinality({i \in 1..Len(s) : P(s[i])})

\* main has the result of validate_and_filter in hand
MainValidated ==
    pc \in {"revenue", "region", "top", "customer", "daily", "peak", "low",
            "fetch", "enrich", "rate", "report"}

\* sum of f over the records
SumOver(ts, F(_)) == SumSeq([i \in 1..Len(ts) |-> F(ts[i])])

Qty(t) == t.Quantity

\* C1: in a run of main, whatever was typed at the filter prompts, the list
\* validate_and_filter returned holds no rejected record, the invalid count
\* is the number of rejected records of the parsed list, and the aggregates
\* main computes are computed from the returned list alone: total revenue,
\* the transactions counted per region and per day, and the quantities
\* counted per product come to the totals of the returned list.
C1_RejectedNeverKept ==
    MainValidated =>
        /\ \A i \in 1..Len(transactions) : ~Rejected(transactions[i])
        /\ \A i \in 1..Len(transactions) : transactions[i] \in Range(parsed)
        /\ invalid_count = Count(parsed, Rejected)
        /\ summary.invalid = invalid_count
        /\ args.op = "calculate_total_revenue" =>
              ret = SumOver(transactions, Amount)
        /\ args.op = "region_wise_sales" =>
              SumSeq([i \in 1..Len(ret.value) |-> ret.value[i].transaction_count])
                  = Len(transactions)
        /\ args.op = "daily_sales_trend" =>
              SumSeq([i \in 1..Len(ret) |-> ret[i].transaction_count])
                  = Len(transactions)
        /\ args.op = "top_selling_products" =>
              SumSeq([i \in 1..Len(ret) |-> ret[i][2]]) = SumOver(transactions, Qty)

\* C1 witness: a parsed list with a quantity-0 record and an accepted one went
\* through validation and the revenue has been computed without the former
C1_Witness ==
    /\ pc = "region"
    /\ args.op = "calculate_total_revenue"
    /\ \E i \in 1..Len(parsed) : parsed[i].Quantity = 0
    /\ invalid_count >= 1
    /\ Len(transactions) >= 1
    /\ ret > 0

\* the dispositions of the specification, for a call with the arguments args
RegionActive(a) == a.region # <<>> /\ a.region[1] # ""

MinActive(a) == a.min_amount # <<>> /\ a.min_amount[1] # 0

MaxActive(a) == a.max_amount # <<>> /\ a.max_amount[1] # 0

DropsRegion(a, t) == ~Rejected(t) /\ RegionActive(a) /\ t.Region # a.region[1]

OutOfRange(a, t) ==
    \/ MinActive(a) /\ t.Quantity * t.UnitPrice < a.min_amount[1]
    \/ MaxActive(a) /\ t.Quantity * t.UnitPrice > a.max_amount[1]

DropsAmount(a, t) == ~Rejected(t) /\ ~DropsRegion(a, t) /\ OutOfRange(a, t)

Keeps(a, t) == ~Rejected(t) /\ ~DropsRegion(a, t) /\ ~OutOfRange(a, t)

VFReturned == pc = "vf_done" /\ ret.raised = ""

\* C2: when validate_and_filter returns, every input record has exactly one
\* disposition, decided in the order invalid, region, amount, kept: the
\* four counters are the sizes of the four classes (a record failing the
\* region filter is counted there whatever its amount), they add up to
\* total_input, final_count is the length of the returned list, and the
\* returned list is the kept records in input order.
C2_OneDisposition ==
    VFReturned =>
        LET kept(t) == Keeps(args, t)
            byRegion(t) == DropsRegion(args, t)
            byAmount(t) == DropsAmount(args, t)
        IN  /\ ret.summary.total_input = Len(parsed)
            /\ ret.summary.invalid = Count(parsed, Rejected)
            /\ ret.invalid_count = ret.summary.invalid
            /\ ret.summary.filtered_by_region = Count(parsed, byRegion)
            /\ ret.summary.filtered_by_amount = Count(parsed, byAmount)
            /\ ret.summary.final_count = Len(ret.valid_transactions)
            /\ ret.valid_transactions = SelectSeq(parsed, kept)
            /\ ret.summary.total_input =
                  ret.summary.invalid + ret.summary.filtered_by_region
                  + ret.summary.filtered_by_amount + ret.summary.final_count

\* C2 witness: a call returned in which an accepted record failed the region
\* filter with its amount out of range too, next to a rejected record
C2_Witness ==
    /\ VFReturned
    /\ \E i \in 1..Len(parsed) :
          DropsRegion(args, parsed[i]) /\ OutOfRange(args, parsed[i])
    /\ ret.summary.filtered_by_region = 1
    /\ ret.summary.filtered_by_amount = 0
    /\ ret.summary.invalid = 1
    /\ ret.summary.final_count = 1

\* C3: a min_amount or max_amount of exactly 0 acts as an absent one: the
\* call returns what it returns with that bound left out, so that with
\* max_amount = 0 and no minimum nothing is dropped by amount; a bound other
\* than 0 drops exactly the accepted, region-passing records below the
\* minimum or above the maximum, and keeps a record whose amount equals it.
C3_ZeroBoundIsNoBound ==
    VFReturned =>
        /\ args.max_amount = <<0>> =>
              /\ ret = validate_and_filter(parsed, args.region, args.min_amount, <<>>)
              /\ ~MinActive(args) => ret.summary.filtered_by_amount = 0
        /\ args.min_amount = <<0>> =>
              ret = validate_and_filter(parsed, args.region, <<>>, args.max_amount)
        /\ \A i \in 1..Len(parsed) :
              LET t == parsed[i]
                  amount == t.Quantity * t.UnitPrice
                  passes == ~Rejected(t) /\ ~DropsRegion(args, t)
                  below == args.min_amount \notin {<<>>, <<0>>}
                              /\ amount < args.min_amount[1]
                  above == args.max_amount \notin {<<>>, <<0>>}
                              /\ amount > args.max_amount[1]
              IN  passes => (t \in Range(ret.valid_transactions) <=> ~(below \/ above))
        /\ ret.summary.filtered_by_amount =
              Cardinality({i \in 1..Len(parsed) :
                 /\ ~Rejected(parsed[i]) /\ ~DropsRegion(args, parsed[i])
                 /\ \/ /\ args.min_amount \notin {<<>>, <<0>>}
                       /\ Amount(parsed[i]) < args.min_amount[1]
                    \/ /\ args.max_amount \notin {<<>>, <<0>>}
                       /\ Amount(parsed[i]) > args.max_amount[1]})

\* C3 witness: a call with max_amount = 0 and no minimum returned accepted
\* records, all of amount above 0, and counted none as dropped by amount
C3_Witness ==
    /\ VFReturned
    /\ args.max_amount = <<0>>
    /\ args.min_amount = <<>>
    /\ Len(ret.valid_transactions) = 2
    /\ \A i \in 1..Len(ret.valid_transactions) : Amount(ret.valid_transactions[i]) > 0
    /\ ret.summary.filtered_by_amount = 0

\* groups of the record list of the library session
FirstIndex(K(_), key) ==
    CHOOSE i \in 1..Len(transactions) :
        /\ K(transactions[i]) = key
        /\ \A j \in 1..(i - 1) : K(transactions[j]) # key

SumWhere(K(_), key, F(_)) ==
    SumSeq([i \in 1..Len(transactions) |->
               IF K(transactions[i]) = key THEN F(transactions[i]) ELSE 0])

CountWhere(K(_), key) ==
    Cardinality({i \in 1..Len(transactions) : K(transactions[i]) = key})

KeysOf(K(_)) == {K(transactions[i]) : i \in 1..Len(transactions)}

RegionOf(t) == t.Region

NameOf(t) == t.ProductName

CustomerIdOf(t) == t.CustomerID

DateOf(t) == t.Date

\* the sort keys k fall or stay, and of two equal ones the group first met
\* in the input (at index f) is in front
NonIncreasingStable(k, f) ==
    \A i, j \in 1..Len(k) :
        i < j => k[i] > k[j] \/ (k[i] = k[j] /\ f[i] < f[j])

\* C4: for a non-empty list of accepted records region_wise_sales returns;
\* the total_sales of its regions add up to calculate_total_revenue of the
\* list, the transaction counts add up to the number of records, each
\* percentage is within half a hundredth of total_sales / total * 100 (it
\* is that share rounded to two decimals), and the percentages add up to 100
\* within half a hundredth per region.
C4_RegionTotalsAndPercentages ==
    (pc = "lib" /\ args.op = "region_wise_sales" /\ transactions # <<>>) =>
        /\ ret.raised = ""
        /\ LET r == ret.value
               total == SumOver(transactions, Amount)
           IN  /\ total = calculate_total_revenue(transactions)
               /\ SumSeq([i \in 1..Len(r) |-> r[i].total_sales]) = total
               /\ SumSeq([i \in 1..Len(r) |-> r[i].transaction_count])
                     = Len(transactions)
               /\ \A i \in 1..Len(r) :
                     2 * Abs(r[i].percentage * total - 10000 * r[i].total_sales)
                         <= total
               /\ 2 * Abs(SumSeq([i \in 1..Len(r) |-> r[i].percentage]) - 10000)
                     <= Len(r)

\* C4 witness: three regions of equal sales: 33.33 % each, 99.99 % together
C4_Witness ==
    /\ pc = "lib"
    /\ args.op = "region_wise_sales"
    /\ Len(ret.value) = 3
    /\ \A i \in 1..3 : ret.value[i].percentage = 3333

\* C5: the regions come in non-increasing total_sales, the customers in
\* non-increasing total_spent and the top products in non-increasing
\* quantity, and groups with the same sort key come in the order in which
\* their region, customer id or product name first occurs in the input.
C5_OrderedStable ==
    /\ (pc = "lib" /\ args.op = "region_wise_sales" /\ ret.raised = "") =>
          NonIncreasingStable(
              [i \in 1..Len(ret.value) |-> ret.value[i].total_sales],
              [i \in 1..Len(ret.value) |-> FirstIndex(RegionOf, ret.value[i].key)])
    /\ (pc = "lib" /\ args.op = "customer_analysis") =>
          NonIncreasingStable(
              [i \in 1..Len(ret) |-> ret[i].total_spent],
              [i \in 1..Len(ret) |-> FirstIndex(CustomerIdOf, ret[i].key)])
    /\ (pc = "lib" /\ args.op = "top_selling_products") =>
          NonIncreasingStable(
              [i \in 1..Len(ret) |-> ret[i][2]],
              [i \in 1..Len(ret) |-> FirstIndex(NameOf, ret[i][1])])

\* C5 witness: the region with the highest sales occurs last in the input
\* and comes first; the other two tie and keep their input order
C5_Witness ==
    /\ pc = "lib"
    /\ args.op = "region_wise_sales"
    /\ Len(ret.value) = 3
    /\ ret.value[1].total_sales > ret.value[2].total_sales
    /\ ret.value[2].total_sales = ret.value[3].total_sales
    /\ transactions[1].Region = ret.value[2].key
    /\ transactions[2].Region = ret.value[3].key
    /\ transactions[3].Region = ret.value[1].key

\* C6: top_selling_products(transactions, n), n >= 0, returns min(n, number
\* of distinct product names) entries, each for a different product name
\* with the sum of its quantities and of its amounts, and no product left
\* out has a larger total quantity than a product returned.
C6_TopN ==
    (pc = "lib" /\ args.op = "top_selling_products") =>
        LET names == KeysOf(NameOf)
            returned == {ret[i][1] : i \in 1..Len(ret)}
        IN  /\ Len(ret) = Min(args.n, Cardinality(names))
            /\ returned \subseteq names
            /\ Cardinality(returned) = Len(ret)
            /\ \A i \in 1..Len(ret) :
                  /\ ret[i][2] = SumWhere(NameOf, ret[i][1], Qty)
                  /\ ret[i][3] = SumWhere(NameOf, ret[i][1], Amount)
            /\ \A name \in names \ returned : \A i \in 1..Len(ret) :
                  SumWhere(NameOf, name, Qty) <= ret[i][2]

\* C6 witness: three products, n = 2: two entries, the third product left out
C6_Witness ==
    /\ pc = "lib"
    /\ args.op = "top_selling_products"
    /\ args.n = 2
    /\ Cardinality(KeysOf(NameOf)) = 3
    /\ Len(ret) = 2

\* C7: daily_sales_trend returns one bucket per distinct Date of the input,
\* in strictly ascending order of the date strings whatever the input order,
\* each with the summed amount, the number of transactions and the number
\* of distinct CustomerIDs of its date.
C7_DailyBuckets ==
    (pc = "lib" /\ args.op = "daily_sales_trend") =>
        /\ {ret[i].key : i \in 1..Len(ret)} = KeysOf(DateOf)
        /\ Len(ret) = Cardinality(KeysOf(DateOf))
        /\ \A i \in 1..(Len(ret) - 1) : StrLess(ret[i].key, ret[i + 1].key)
        /\ \A i \in 1..Len(ret) :
              /\ ret[i].revenue = SumWhere(DateOf, ret[i].key, Amount)
              /\ ret[i].transaction_count = CountWhere(DateOf, ret[i].key)
              /\ ret[i].unique_customers =
                    Cardinality({transactions[j].CustomerID :
                        j \in {k \in 1..Len(transactions) :
                                  transactions[k].Date = ret[i].key}})

\* C7 witness: the later date comes first in the input and last in the
\* result, with two transactions of one customer
C7_Witness ==
    /\ pc = "lib"
    /\ args.op = "daily_sales_trend"
    /\ Len(ret) = 2
    /\ transactions[1].Date = ret[2].key
    /\ ret[2].transaction_count = 2
    /\ ret[2].unique_customers = 1

\* C8: for a list of accepted records find_peak_sales_day returns ("", 0, 0)
\* when the list is empty, and otherwise a date of the input with the
\* revenue and the transaction count of that date, no date of the input
\* having a higher revenue and no earlier date having the same.
C8_PeakDay ==
    (pc = "lib" /\ args.op = "find_peak_sales_day") =>
        IF transactions = <<>>
        THEN ret = <<<<>>, 0, 0>>
        ELSE /\ ret[1] \in KeysOf(DateOf)
             /\ ret[2] = SumWhere(DateOf, ret[1], Amount)
             /\ ret[3] = CountWhere(DateOf, ret[1])
             /\ \A d \in KeysOf(DateOf) :
                   /\ SumWhere(DateOf, d, Amount) <= ret[2]
                   /\ SumWhere(DateOf, d, Amount) = ret[2] /\ d # ret[1]
                         => StrLess(ret[1], d)

\* C8 witness: two days share the highest revenue, the later one is first in
\* the input, the earlier one is returned
C8_Witness ==
    /\ pc = "lib"
    /\ args.op = "find_peak_sales_day"
    /\ Len(transactions) >= 2
    /\ transactions[1].Date # ret[1]
    /\ SumWhere(DateOf, transactions[1].Date, Amount) = ret[2]
    /\ StrLess(ret[1], transactions[1].Date)

\* C9: low_performing_products(transactions, threshold) returns one entry
\* for each product name whose summed quantity is below the threshold and
\* for no other, with that quantity, in non-decreasing order of quantity.
C9_LowPerformers ==
    (pc = "lib" /\ args.op = "low_performing_products") =>
        LET returned == {ret[i][1] : i \in 1..Len(ret)}
        IN  /\ returned = {name \in KeysOf(NameOf) :
                              SumWhere(NameOf, name, Qty) < args.threshold}
            /\ Cardinality(returned) = Len(ret)
            /\ \A i \in 1..Len(ret) :
                  /\ ret[i][2] = SumWhere(NameOf, ret[i][1], Qty)
                  /\ ret[i][2] < args.threshold
            /\ \A i \in 1..(Len(ret) - 1) : ret[i][2] <= ret[i + 1][2]

\* C9 witness: threshold 3: a product sold 1 + 2 = 3 times is left out, a
\* product sold less is returned
C9_Witness ==
    /\ pc = "lib"
    /\ args.op = "low_performing_products"
    /\ args.threshold = 3
    /\ \E name \in KeysOf(NameOf) :
          SumWhere(NameOf, name, Qty) = 3 /\ CountWhere(NameOf, name) = 2
    /\ Len(ret) = 1
    /\ ret[1][2] < 3

TransactionFields ==
    {"TransactionID", "Date", "ProductID", "ProductName", "Quantity",
     "UnitPrice", "CustomerID", "Region"}

\* C10: whatever the catalog answered, enrich_sales_data returns, without
\* an error, one record per input record in input order with the eight
\* input fields unchanged; a record has either API_Match true and the
\* category, brand and rating of one entry of the mapping, or API_Match
\* false and none of the three.  When the fetch failed the mapping is
\* empty and every record has API_Match false.
C10_EnrichmentTotal ==
    pc = "lib_enriched" =>
        /\ error = ""
        /\ Len(ret) = Len(transactions)
        /\ \A i \in 1..Len(ret) :
              /\ \A f \in TransactionFields : ret[i][f] = transactions[i][f]
              /\ DOMAIN ret[i] = TransactionFields \cup
                    {"API_Category", "API_Brand", "API_Rating", "API_Match"}
              /\ IF ret[i].API_Match
                 THEN \E e \in 1..Len(args.product_mapping) :
                        /\ ret[i].API_Category = <<args.product_mapping[e].val.category>>
                        /\ ret[i].API_Brand = <<args.product_mapping[e].val.brand>>
                        /\ ret[i].API_Rating = <<args.product_mapping[e].val.rating>>
                 ELSE /\ ret[i].API_Category = <<>>
                      /\ ret[i].API_Brand = <<>>
                      /\ ret[i].API_Rating = <<>>
        /\ ~api.ok => args.product_mapping = <<>>
        /\ args.product_mapping = <<>> =>
              \A i \in 1..Len(ret) : ~ret[i].API_Match

\* C10 witness: the fetch failed, and three records were enriched, none
\* matched
C10_Witness ==
    /\ pc = "lib_enriched"
    /\ ~api.ok
    /\ Len(transactions) = 3
    /\ Len(ret) = 3
    /\ \A i \in 1..3 : ~ret[i].API_Match /\ ret[i].API_Brand = <<>>

\* the catalog key of the specification: the product identifier without its
\* first character, read as an integer; <<>> when it does not read so
KeyAfterPrefix(product_id) ==
    IF ParsesAsNumber(Tail(product_id))
    THEN <<NumberValue(Tail(product_id))>>
    ELSE <<>>

\* C11: a record is matched exactly when its product identifier, with the
\* prefix letter taken off, parses as an integer that is a key of the
\* mapping, and is then given the fields of that key; an identifier whose
\* remainder does not parse (as "P1P2", remainder "1P2") is not matched.
C11_KeyIsIdAfterPrefix ==
    pc = "lib_enriched" =>
        \A i \in 1..Len(ret) :
            LET key == KeyAfterPrefix(transactions[i].ProductID)
                known == key # <<>> /\ HasKey(args.product_mapping, key[1])
            IN  /\ ret[i].API_Match <=> known
                /\ known => ret[i].API_Category =
                               <<DictGet(args.product_mapping, key[1]).category>>


-----------------------------------------------------------------------------
(* The seven aggregations and enrich_sales_data called any number of times, *)
(* in any order, on one record list                                         *)

\* accepted records for the mixed calls: three in one region, one in another
FrameRecords ==
    {r \in ValidRecords :
        \/ r.Region = GroupRegion(1)
        \/ r.Region = GroupRegion(2) /\ r.CustomerID = CustomerOf(1)}

InitFrame ==
    /\ pc = "frame"
    /\ parsed \in SeqsUpTo(FrameRecords, MaxLen)
    /\ InitIdle

\* one of the seven aggregations, called on the list as it now is
FrameAggregation ==
    /\ pc = "frame"
    /\ \/ /\ args' = [op |-> "calculate_total_revenue"]
          /\ ret' = calculate_total_revenue(transactions)
       \/ /\ args' = [op |-> "region_wise_sales"]
          /\ ret' = region_wise_sales(transactions)
       \/ /\ args' = [op |-> "top_selling_products", n |-> DefaultN]
          /\ ret' = top_selling_products(transactions, DefaultN)
       \/ /\ args' = [op |-> "customer_analysis"]
          /\ ret' = customer_analysis(transactions)
       \/ /\ args' = [op |-> "daily_sales_trend"]
          /\ ret' = daily_sales_trend(transactions)
       \/ /\ args' = [op |-> "find_peak_sales_day"]
          /\ ret' = find_peak_sales_day(transactions)
       \/ /\ args' = [op |-> "low_performing_products", threshold |-> DefaultThreshold]
          /\ ret' = low_performing_products(transactions, DefaultThreshold)
    /\ UNCHANGED <<pc, stdin, api, parsed, transactions, invalid_count,
                   summary,
                   api_products, enriched_transactions, enriched_file,
                   report_file, error>>

\* enrich_sales_data called on the list as it now is, with the mapping of
\* any catalog; it rewrites the output file
FrameEnrichSalesData ==
    /\ pc = "frame"
    /\ \E resp \in ApiResponses :
        LET product_mapping == create_product_mapping(fetch_all_products(resp))
        IN  /\ args' = [op |-> "enrich_sales_data", product_mapping |-> product_mapping]
            /\ ret' = enrich_sales_data(transactions, product_mapping)
            /\ transactions' = enrich_sales_data_input(transactions, product_mapping)
    /\ enriched_file' = save_enriched_data(ret')
    /\ UNCHANGED <<pc, stdin, api, parsed, invalid_count, summary,
                   api_products, enriched_transactions, report_file, error>>

NextFrame ==
    \/ FrameAggregation
    \/ FrameEnrichSalesData

SpecFrame == InitFrame /\ [][NextFrame]_vars

\* what the operation named by call returns when it is the first call on ts
FirstCall(call, ts) ==
    CASE call.op = "calculate_total_revenue" -> calculate_total_revenue(ts)
      [] call.op = "region_wise_sales" -> region_wise_sales(ts)
      [] call.op = "top_selling_products" -> top_selling_products(ts, call.n)
      [] call.op = "customer_analysis" -> customer_analysis(ts)
      [] call.op = "daily_sales_trend" -> daily_sales_trend(ts)
      [] call.op = "find_peak_sales_day" -> find_peak_sales_day(ts)
      [] call.op = "low_performing_products" ->
            low_performing_products(ts, call.threshold)
      [] call.op = "enrich_sales_data" ->
            enrich_sales_data(ts, call.product_mapping)

C13_EmptySetNoDivisionFault ==
    transactions = <<>> =>
        /\ region_wise_sales(transactions).raised = ""
        /\ error # "ZeroDivisionError"
        /\ pc = "lib_reported" => ret.raised # "ZeroDivisionError"


-----------------------------------------------------------------------------
(* parse_transactions called directly on a list of raw lines *)

\* the fields joined by the delimiter, as a line of the file has them
RECURSIVE JoinFields(_)
JoinFields(fields) ==
    IF Len(fields) = 1 THEN fields[1]
    ELSE JoinFields(SubSeq(fields, 1, Len(fields) - 1))
            \o <<"|">> \o fields[Len(fields)]

\* raw lines: two that parse with plain and with comma-grouped fields, one
\* with a negative quantity and a price ending in a point, and one for each
\* way of being skipped
RawLines ==
    {JoinFields(<<<<"T", "1">>, Date1, <<"P", "1">>, <<"P", "e", "n">>,
                  <<"1">>, <<"2", "0">>, <<"C", "1">>,
                  <<"N", "o", "r", "t", "h">>>>),
     JoinFields(<<<<"T", "2">>, Date2, <<"P", "2">>, <<"I", "n", ",", "k", ",">>,
                  <<"1", ",", "0", "0", "0">>, <<"1", ",", "5", "0", "0", ".", "0">>,
                  <<"C", "2">>, <<"S", "o", "u", "t", "h">>>>),
     JoinFields(<<<<"T", "3">>, Date3, <<"P", "2">>, <<"I", "n", "k">>,
                  <<"-", "1">>, <<"1", "5", ".">>, <<"C", "1">>,
                  <<"W", "e", "s", "t">>>>),
     JoinFields(<<<<"T", "4">>, Date1, <<"P", "1">>, <<"P", "e", "n">>,
                  <<"2", ".", "0">>, <<"2", "0">>, <<"C", "1">>,
                  <<"N", "o", "r", "t", "h">>>>),
     JoinFields(<<<<"T", "5">>, Date1, <<"P", "1">>, <<"P", "e", "n">>,
                  <<"2">>, <<"x">>, <<"C", "1">>, <<"N", "o", "r", "t", "h">>>>),
     JoinFields(<<<<"T", "6">>, Date1, <<"P", "1">>, <<"P", "e", "n">>,
                  <<",">>, <<"2", "0">>, <<"C", "1">>,
                  <<"N", "o", "r", "t", "h">>>>),
     JoinFields(<<<<"T", "7">>, Date2, <<"P", "2">>, <<"I", "n", "k">>,
                  <<"1">>, <<"2", "0">>, <<"C", "2">>>>),
     JoinFields(<<<<"T", "8">>, Date2, <<"P", "2">>, <<"I", "n">>, <<"k">>,
                  <<"1">>, <<"2", "0">>, <<"C", "2">>,
                  <<"S", "o", "u", "t", "h">>>>)}

InitParse ==
    /\ pc = "parse"
    /\ parsed = <<>>
    /\ InitIdle

\* main lines 56-57: the list parsed from the raw lines becomes `transactions`
LibParseTransactions ==
    /\ pc = "parse"
    /\ \E raw_lines \in SeqsUpTo(RawLines, MaxLen) :
        /\ args' = [op |-> "parse_transactions", raw_lines |-> raw_lines]
        /\ ret' = parse_transactions(raw_lines)
    /\ parsed' = ret'
    /\ transactions' = ret'
    /\ pc' = "parsed"
    /\ UNCHANGED <<stdin, api, invalid_count, summary, api_products,
                   enriched_transactions, enriched_file, report_file, error>>

NextParse == LibParseTransactions

SpecParse == InitParse /\ [][NextParse]_vars

\* positions of the delimiter in a line
Bars(line) == {i \in 1..Len(line) : line[i] = "|"}

\* position of the k-th delimiter; 0 before the first field, one past the
\* end after the last
NthBar(line, k) ==
    IF k = 0 THEN 0
    ELSE IF k > Cardinality(Bars(line)) THEN Len(line) + 1
    ELSE CHOOSE i \in Bars(line) : Cardinality({j \in Bars(line) : j <= i}) = k

\* the k-th field of a line
FieldAt(line, k) == SubSeq(line, NthBar(line, k - 1) + 1, NthBar(line, k) - 1)

\* a line of 8 fields whose quantity and price convert once commas are gone
WellFormed(line) ==
    /\ Cardinality(Bars(line)) = 7
    /\ ConvertsToInt(RemoveCommas(FieldAt(line, 5)))
    /\ ConvertsToFloat(RemoveCommas(FieldAt(line, 6)))

\* the record of a well-formed line
RecordOf(line) ==
    [TransactionID |-> FieldAt(line, 1), Date |-> FieldAt(line, 2),
     ProductID |-> FieldAt(line, 3),
     ProductName |-> Text(RemoveCommas(FieldAt(line, 4))),
     Quantity |-> IntValue(RemoveCommas(FieldAt(line, 5))),
     UnitPrice |-> FloatValue(RemoveCommas(FieldAt(line, 6))),
     CustomerID |-> FieldAt(line, 7), Region |-> Text(FieldAt(line, 8))]

\* C14: parse_transactions returns, in input order, one record for each line
\* of exactly 8 fields whose quantity and price convert to an integer and a
\* decimal once commas are removed, and nothing for any other line; the
\* product name of a record has its commas removed; no call ends in an error.
C14_ParsedInOrder ==
    pc = "parsed" =>
        LET raw_lines == args.raw_lines
            good == {i \in 1..Len(raw_lines) : WellFormed(raw_lines[i])}
        IN  /\ Len(ret) = Cardinality(good)
            /\ Len(ret) <= Len(raw_lines)
            /\ \A k \in 1..Len(ret) :
                 \E i \in good :
                    /\ Cardinality({j \in good : j <= i}) = k
                    /\ ret[k] = RecordOf(raw_lines[i])

\* a skipped line stands between two lines that parse, one of them with
\* commas in its name, quantity and price
C14_Witness ==
    /\ pc = "parsed"
    /\ Len(args.raw_lines) = 3
    /\ ~WellFormed(args.raw_lines[2])
    /\ Len(ret) = 2
    /\ ret[1].ProductName = "Ink"
    /\ ret[1].Quantity = 1000
    /\ ret[1].UnitPrice = 1500
    /\ ret[2].ProductName = "Pen"


\* C15: validate_and_filter returns for every parsed list, the empty list and
\* a list of invalid records included; for the empty list it returns the
\* empty list, the count 0 and a summary whose five counters are 0.
C15_ReturnsForEveryList ==
    pc = "vf_done" =>
        /\ ret.raised = ""
        /\ parsed = <<>> =>
              /\ ret.valid_transactions = <<>>
              /\ ret.invalid_count = 0
              /\ ret.summary = NoSummary

====
